---- MODULE Spec2Model ----
\* A model of src/transcriber.py: the caption flattener vtt_to_plaintext, run
\* as one forward loop over the lines of a caption document, and the
\* /api/get_youtube_details route with the extraction function it calls.
\*
\* A Python str is a sequence of one-character strings.  The only line
\* boundary of the modelled alphabet is "\n" and the only white space inside a
\* line is " " and "\t".
EXTENDS Naturals, Integers, Sequences, FiniteSets, TLC

VARIABLES
    vtt_content,        \* [invocation -> str]    the argument of vtt_to_plaintext
    lines,              \* [invocation -> Seq(str)]  vtt_content.splitlines()
    pos,                \* [invocation -> Nat]    the line the for loop reads next
    in_dialogue_block,  \* [invocation -> BOOLEAN]
    text_lines,         \* [invocation -> Seq(str)]  the accumulator
    pc,                 \* [invocation -> "idle" | "loop" | "done"]
    returned,           \* [invocation -> str]    the value of the last return
    history,            \* [invocation -> Seq(record)]  what each iteration read and did
    flag_found,         \* [invocation -> BOOLEAN]  the flag the invocation before left
    temp_files,         \* the languages whose caption file of the last extraction
                        \* is in TRANSCRIPTS_TEMP_DIR
    result_data,        \* what the last extraction returned
    response            \* the last response of /api/get_youtube_details

flattener_vars == <<vtt_content, lines, pos, in_dialogue_block, text_lines, pc,
                    returned, history, flag_found>>
api_vars == <<temp_files, result_data, response>>
vars == <<vtt_content, lines, pos, in_dialogue_block, text_lines, pc, returned,
          history, flag_found, temp_files, result_data, response>>

-----------------------------------------------------------------------------
\* Bounds of the model.

\* Lines of a document built from LinePool.
MaxLines == 4
\* Fragments of the dialogue line of a one-cue document.
MaxFragments == 3
\* Lines of a document of two interleaved invocations.
ConcMaxLines == 2

-----------------------------------------------------------------------------
\* Python str primitives.

NL == "\n"
Whitespace == {" ", "\t"}
Digits == {"0", "1", "2", "3", "4", "5", "6", "7", "8", "9"}

RECURSIVE Concat(_)
\* "".join(parts)
Concat(parts) ==
    IF parts = <<>> THEN <<>> ELSE Head(parts) \o Concat(Tail(parts))

RECURSIVE lstrip(_)
lstrip(s) ==
    IF s # <<>> /\ Head(s) \in Whitespace THEN lstrip(Tail(s)) ELSE s

RECURSIVE rstrip(_)
rstrip(s) ==
    IF s # <<>> /\ s[Len(s)] \in Whitespace
    THEN rstrip(SubSeq(s, 1, Len(s) - 1))
    ELSE s

\* str.strip()
strip(s) == rstrip(lstrip(s))

\* str.isdigit(): non-empty and every character a decimal digit
isdigit(s) == s # <<>> /\ \A k \in 1..Len(s) : s[k] \in Digits

\* sub in s
Contains(s, sub) ==
    \E k \in 0..(Len(s) - Len(sub)) : SubSeq(s, k + 1, k + Len(sub)) = sub

\* the least k >= from with s[k] = c, or 0
FirstIndex(s, c, from) ==
    IF \E k \in from..Len(s) : s[k] = c
    THEN CHOOSE k \in from..Len(s) :
            s[k] = c /\ \A j \in from..(k - 1) : s[j] # c
    ELSE 0

RECURSIVE splitlines(_)
\* str.splitlines(): the text between line boundaries; a final boundary opens
\* no further line, and "" has no line.
splitlines(s) ==
    IF s = <<>> THEN <<>>
    ELSE LET k == FirstIndex(s, NL, 1) IN
         IF k = 0 THEN <<s>>
         ELSE <<SubSeq(s, 1, k - 1)>> \o splitlines(SubSeq(s, k + 1, Len(s)))

RECURSIVE join(_, _)
\* sep.join(parts)
join(sep, parts) ==
    IF parts = <<>> THEN <<>>
    ELSE IF Len(parts) = 1 THEN parts[1]
    ELSE parts[1] \o sep \o join(sep, Tail(parts))

RECURSIVE replace(_, _, _)
\* str.replace(old, new) for a non-empty old: every non-overlapping
\* occurrence, left to right.
replace(s, old, new) ==
    IF Len(s) < Len(old) THEN s
    ELSE IF SubSeq(s, 1, Len(old)) = old
    THEN new \o replace(SubSeq(s, Len(old) + 1, Len(s)), old, new)
    ELSE <<Head(s)>> \o replace(Tail(s), old, new)

RECURSIVE re_sub_tags(_)
\* re.sub(r'<[^>]+>', '', s): scanning left to right, a '<' followed by at
\* least one character other than '>' and then by a '>' is removed up to and
\* including the first such '>'; every other character is kept.
re_sub_tags(s) ==
    IF s = <<>> THEN <<>>
    ELSE LET close == FirstIndex(s, ">", 2) IN
         IF Head(s) = "<" /\ close > 2
         THEN re_sub_tags(SubSeq(s, close + 1, Len(s)))
         ELSE <<Head(s)>> \o re_sub_tags(Tail(s))

-----------------------------------------------------------------------------
\* vtt_to_plaintext, piece by piece.

\* "-->"
Arrow == <<"-", "-", ">">>

\* faulty variant: the flag is kept from the invocation before
EntryFlag_Stale(previous) == previous

\* faulty variant: an invocation starts in dialogue mode
EntryFlag_True(previous) == TRUE

\* line 43: the flag a fresh invocation starts with, whatever an earlier
\* invocation left behind
EntryFlag(previous) == FALSE

\* line 42: the accumulator a fresh invocation starts with
EntryTextLines(previous) == <<>>

\* line 46: not line_stripped
IsBlank(line_stripped) == line_stripped = <<>>

\* line 49: "-->" in line_stripped
IsTimestamp(line_stripped) == Contains(line_stripped, Arrow)

\* faulty variant: a digits-only line is dropped inside a cue too
IsSequenceNumber_Always(line_stripped, flag) == isdigit(line_stripped)

\* line 53: line_stripped.isdigit() and not in_dialogue_block
IsSequenceNumber(line_stripped, flag) == isdigit(line_stripped) /\ ~flag

RECURSIVE re_sub_first_tag(_)
\* re.sub with count=1: only the first tag is removed
re_sub_first_tag(s) ==
    IF s = <<>> THEN <<>>
    ELSE LET close == FirstIndex(s, ">", 2) IN
         IF Head(s) = "<" /\ close > 2
         THEN SubSeq(s, close + 1, Len(s))
         ELSE <<Head(s)>> \o re_sub_first_tag(Tail(s))

\* faulty variant: only the first tag of a line is removed
StripTags_FirstOnly(line_stripped) == re_sub_first_tag(line_stripped)

\* line 58
StripTags(line_stripped) == re_sub_tags(line_stripped)

\* line 61: the three replace calls, each with the same text for old and new
DecodeEntities(cleaned_line) ==
    replace(replace(replace(cleaned_line, <<"&">>, <<"&">>),
                    <<"<">>, <<"<">>),
            <<">">>, <<">">>)

\* lines 58-61
CleanLine(line_stripped) == DecodeEntities(StripTags(line_stripped))

\* faulty variant: the cleaned line is appended even when empty
KeepsLine_Always(cleaned_line) == TRUE

\* line 62: if cleaned_line
KeepsLine(cleaned_line) == cleaned_line # <<>>

\* faulty variant: a blank line leaves the flag as it is
FlagAfterBlank_Kept(flag) == flag

\* line 47: the flag after a blank line
FlagAfterBlank(flag) == FALSE

\* line 50: the flag after a timestamp line
FlagAfterTimestamp(flag) == TRUE

\* faulty variant: the cleaned line is put in front of the accumulator
AppendLine_Front(acc, cleaned_line) == <<cleaned_line>> \o acc

\* line 63: text_lines.append(cleaned_line)
AppendLine(acc, cleaned_line) == Append(acc, cleaned_line)

\* lines 45-63: one iteration of the for loop on `line`, with the flag and
\* the accumulator it finds; `emitted` says whether it appended.
LoopBody(line, flag, acc) ==
    LET line_stripped == strip(line) IN
    IF IsBlank(line_stripped)
    THEN [flag |-> FlagAfterBlank(flag), acc |-> acc, emitted |-> FALSE]
    ELSE IF IsTimestamp(line_stripped)
    THEN [flag |-> FlagAfterTimestamp(flag), acc |-> acc, emitted |-> FALSE]
    ELSE IF IsSequenceNumber(line_stripped, flag)
    THEN [flag |-> flag, acc |-> acc, emitted |-> FALSE]
    ELSE IF flag
    THEN LET cleaned_line == CleanLine(line_stripped) IN
         IF KeepsLine(cleaned_line)
         THEN [flag |-> flag, acc |-> AppendLine(acc, cleaned_line),
               emitted |-> TRUE]
         ELSE [flag |-> flag, acc |-> acc, emitted |-> FALSE]
    ELSE [flag |-> flag, acc |-> acc, emitted |-> FALSE]

\* faulty variant: the loop skips every other line
NextLine_Skip(p) == p + 2

\* line 44: the line the for loop reads after line p
NextLine(p) == p + 1

\* line 64
ReturnValue(acc) == join(<<NL>>, acc)

RECURSIVE RunLoop(_, _, _)
\* lines 44-63 run to the end on `rest`, uninterrupted
RunLoop(rest, flag, acc) ==
    IF rest = <<>> THEN acc
    ELSE LET r == LoopBody(Head(rest), flag, acc) IN
         RunLoop(Tail(rest), r.flag, r.acc)

\* lines 40-64: the value of one invocation run alone
RunAlone(document) ==
    ReturnValue(RunLoop(splitlines(document), FALSE, <<>>))

-----------------------------------------------------------------------------
\* The caption documents the invocations are given.

\* 'WEBVTT'
Line_WEBVTT ==
    <<"W", "E", "B", "V", "T", "T">>

\* '00:00:01.000 --> 00:00:02.000'
Line_Timing1 ==
    <<"0", "0", ":", "0", "0", ":", "0", "1", ".", "0", "0", "0", " ", "-", "-", ">", " ", "0", "0", ":", "0", "0", ":", "0", "2", ".", "0", "0", "0">>

\* '00:00:03.000 --> 00:00:04.000'
Line_Timing2 ==
    <<"0", "0", ":", "0", "0", ":", "0", "3", ".", "0", "0", "0", " ", "-", "-", ">", " ", "0", "0", ":", "0", "0", ":", "0", "4", ".", "0", "0", "0">>

\* '00:00:00.000 --> 00:00:05.000'
Line_Timing5 ==
    <<"0", "0", ":", "0", "0", ":", "0", "0", ".", "0", "0", "0", " ", "-", "-", ">", " ", "0", "0", ":", "0", "0", ":", "0", "5", ".", "0", "0", "0">>

\* 'Hello'
Line_Hello ==
    <<"H", "e", "l", "l", "o">>

\* 'World'
Line_World ==
    <<"W", "o", "r", "l", "d">>

\* 'Line one'
Line_LineOne ==
    <<"L", "i", "n", "e", " ", "o", "n", "e">>

\* 'Line two'
Line_LineTwo ==
    <<"L", "i", "n", "e", " ", "t", "w", "o">>

\* '<v Alice>Hi there</v>'
Line_Voice ==
    <<"<", "v", " ", "A", "l", "i", "c", "e", ">", "H", "i", " ", "t", "h", "e", "r", "e", "<", "/", "v", ">">>

\* 'Hi there'
Line_HiThere ==
    <<"H", "i", " ", "t", "h", "e", "r", "e">>

\* '5 &lt; 10 &amp; true'
Line_Entities ==
    <<"5", " ", "&", "l", "t", ";", " ", "1", "0", " ", "&", "a", "m", "p", ";", " ", "t", "r", "u", "e">>

\* '5 < 10 & true'
Line_EntitiesDecoded ==
    <<"5", " ", "<", " ", "1", "0", " ", "&", " ", "t", "r", "u", "e">>

\* '&amp;lt;'
Line_DoubleEscaped ==
    <<"&", "a", "m", "p", ";", "l", "t", ";">>

\* '&lt;'
Line_EscapedLt ==
    <<"&", "l", "t", ";">>

\* '<i></i>'
Line_OnlyTags ==
    <<"<", "i", ">", "<", "/", "i", ">">>

\* '<i> </i>'
Line_TagsAroundSpace ==
    <<"<", "i", ">", " ", "<", "/", "i", ">">>

\* '<>'
Line_EmptyTag ==
    <<"<", ">">>

\* '--<b>>'
Line_ArrowAfterCleanup ==
    <<"-", "-", "<", "b", ">", ">">>

\* '  Hello '
Line_Padded ==
    <<" ", " ", "H", "e", "l", "l", "o", " ">>

\* '42'
Line_42 ==
    <<"4", "2">>

\* the lines every document of at most MaxLines lines is built from: blank,
\* white space only, timestamp, digits only, text with a tag
LinePool ==
    { <<>>, <<" ">>, Arrow, <<"1">>, <<"<", "b", ">", "a">> }

\* the pieces the dialogue line of a one-cue document is built from
Fragments ==
    { <<"<">>, <<">">>, <<"a">>, <<" ">>,
      <<"&", "l", "t", ";">>, <<"&", "g", "t", ";">>,
      <<"&", "a", "m", "p", ";">> }

SeqsUpTo(S, n) == UNION { [1..k -> S] : k \in 0..n }

\* every document of at most MaxLines lines of LinePool
PoolDocuments == { join(<<NL>>, ls) : ls \in SeqsUpTo(LinePool, MaxLines) }

\* every document of a timestamp line and one dialogue line of at most
\* MaxFragments fragments
CueDocuments ==
    { Arrow \o <<NL>> \o Concat(fs) : fs \in SeqsUpTo(Fragments, MaxFragments) }

\* the documents the specification and its tests name
NamedDocuments ==
    { join(<<NL>>, <<<<"1">>, Line_Timing1, Line_Hello, <<>>, <<"2">>,
                     Line_Timing2, Line_World>>),
      join(<<NL>>, <<Line_Timing5, Line_LineOne, Line_LineTwo, <<>>, <<>>>>),
      join(<<NL>>, <<Line_Timing1, Line_Voice>>),
      join(<<NL>>, <<Line_Timing1, Line_Entities>>),
      join(<<NL>>, <<Line_Timing1, Line_DoubleEscaped>>),
      join(<<NL>>, <<Line_Timing1, Line_OnlyTags>>),
      join(<<NL>>, <<Line_Timing1, Line_TagsAroundSpace>>),
      join(<<NL>>, <<Line_Timing1, Line_EmptyTag>>),
      join(<<NL>>, <<Line_Timing1, Line_ArrowAfterCleanup>>),
      join(<<NL>>, <<Line_Timing1, Line_Padded, Line_42, <<>>, Line_42>>),
      Line_WEBVTT,
      join(<<NL>>, <<Line_WEBVTT, <<>>, <<"1">>, Line_Timing1, Line_Hello>>),
      join(<<NL>>, <<Line_WEBVTT, <<>>, Line_Timing1, Line_Hello, <<>>,
                     Line_World>>),
      join(<<NL>>, <<Line_Padded, <<>>, Line_World>>) }

Documents == PoolDocuments \cup CueDocuments \cup NamedDocuments

\* the documents of two interleaved invocations
ConcLinePool == { <<>>, Arrow, <<"a">> }
ConcDocuments ==
    { join(<<NL>>, ls) : ls \in SeqsUpTo(ConcLinePool, ConcMaxLines) }

-----------------------------------------------------------------------------
\* The invocations of vtt_to_plaintext: "A" alone, or "A" and "B" interleaved.

Invocations == {"A", "B"}

NoValue == <<"<none>">>

InitFlattener(callers) ==
    /\ vtt_content = [i \in callers |-> <<>>]
    /\ lines = [i \in callers |-> <<>>]
    /\ pos = [i \in callers |-> 1]
    /\ in_dialogue_block = [i \in callers |-> FALSE]
    /\ text_lines = [i \in callers |-> <<>>]
    /\ pc = [i \in callers |-> "idle"]
    /\ returned = [i \in callers |-> NoValue]
    /\ history = [i \in callers |-> <<>>]
    /\ flag_found = [i \in callers |-> FALSE]

\* lines 40-43: invocation i is entered with `document`.  The locals are those
\* of a new frame; what an earlier invocation of i left is handed to
\* EntryFlag and EntryTextLines, which ignore it.
Call(i, document) ==
    /\ pc[i] \in {"idle", "done"}
    /\ vtt_content' = [vtt_content EXCEPT ![i] = document]
    /\ lines' = [lines EXCEPT ![i] = splitlines(document)]
    /\ text_lines' = [text_lines EXCEPT ![i] = EntryTextLines(text_lines[i])]
    /\ in_dialogue_block' =
           [in_dialogue_block EXCEPT ![i] = EntryFlag(in_dialogue_block[i])]
    /\ pos' = [pos EXCEPT ![i] = 1]
    /\ history' = [history EXCEPT ![i] = <<>>]
    /\ flag_found' = [flag_found EXCEPT ![i] = in_dialogue_block[i]]
    /\ returned' = [returned EXCEPT ![i] = NoValue]
    /\ pc' = [pc EXCEPT ![i] = "loop"]
    /\ UNCHANGED api_vars

\* line 44: the for loop of invocation i has a line left to read
HasNextLine(i) == pc[i] = "loop" /\ pos[i] <= Len(lines[i])

\* line 44: the for loop of invocation i is exhausted
Exhausted(i) == pc[i] = "loop" /\ pos[i] > Len(lines[i])

\* lines 44-63: invocation i reads its next line
Iterate(i) ==
    /\ HasNextLine(i)
    /\ LET r == LoopBody(lines[i][pos[i]], in_dialogue_block[i], text_lines[i])
       IN /\ in_dialogue_block' = [in_dialogue_block EXCEPT ![i] = r.flag]
          /\ text_lines' = [text_lines EXCEPT ![i] = r.acc]
          /\ history' = [history EXCEPT ![i] =
                 Append(@, [line |-> pos[i], flag |-> in_dialogue_block[i],
                            emitted |-> r.emitted])]
    /\ pos' = [pos EXCEPT ![i] = NextLine(pos[i])]
    /\ UNCHANGED <<vtt_content, lines, pc, returned, flag_found>>
    /\ UNCHANGED api_vars

\* line 64: the loop of invocation i is exhausted and it returns
Return(i) ==
    /\ Exhausted(i)
    /\ returned' = [returned EXCEPT ![i] = ReturnValue(text_lines[i])]
    /\ pc' = [pc EXCEPT ![i] = "done"]
    /\ UNCHANGED <<vtt_content, lines, pos, in_dialogue_block, text_lines,
                   history, flag_found>>
    /\ UNCHANGED api_vars

-----------------------------------------------------------------------------
\* The extraction and its route.

\* line 298: the first text the URL check looks for: 'https://www.youtube.com/watch?v=xqcl9dAAkC0'
Url_CheckA ==
    <<"h", "t", "t", "p", "s", ":", "/", "/", "w", "w", "w", ".", "y", "o",
      "u", "t", "u", "b", "e", ".", "c", "o", "m", "/", "w", "a", "t", "c",
      "h", "?", "v", "=", "x", "q", "c", "l", "9", "d", "A", "A", "k", "C",
      "0">>

\* line 298: the second text the URL check looks for: 'https://www.youtube.com/watch?v=tt6_v_LoOZw'
Url_CheckB ==
    <<"h", "t", "t", "p", "s", ":", "/", "/", "w", "w", "w", ".", "y", "o",
      "u", "t", "u", "b", "e", ".", "c", "o", "m", "/", "w", "a", "t", "c",
      "h", "?", "v", "=", "t", "t", "6", "_", "v", "_", "L", "o", "O", "Z",
      "w">>

\* a request URL: Url_CheckA in lower case: 'https://www.youtube.com/watch?v=xqcl9daakc0'
Url_CheckALower ==
    <<"h", "t", "t", "p", "s", ":", "/", "/", "w", "w", "w", ".", "y", "o",
      "u", "t", "u", "b", "e", ".", "c", "o", "m", "/", "w", "a", "t", "c",
      "h", "?", "v", "=", "x", "q", "c", "l", "9", "d", "a", "a", "k", "c",
      "0">>

\* a request URL: the short form: 'https://youtu.be/xqcl9dAAkC0'
Url_Short ==
    <<"h", "t", "t", "p", "s", ":", "/", "/", "y", "o", "u", "t", "u", ".",
      "b", "e", "/", "x", "q", "c", "l", "9", "d", "A", "A", "k", "C", "0">>

\* a request URL: no YouTube URL: 'https://example.com/v'
Url_Other ==
    <<"h", "t", "t", "p", "s", ":", "/", "/", "e", "x", "a", "m", "p", "l",
      "e", ".", "c", "o", "m", "/", "v">>

\* line 297: the host the URL test is documented to look for: 'youtube.com'
Host_YouTube ==
    <<"y", "o", "u", "t", "u", "b", "e", ".", "c", "o", "m">>

\* line 297: the short host the URL test is documented to look for: 'youtu.be'
Host_YouTuBe ==
    <<"y", "o", "u", "t", "u", ".", "b", "e">>

\* line 216: 'no subtitles found'
Text_NoSubtitlesFound ==
    <<"n", "o", " ", "s", "u", "b", "t", "i", "t", "l", "e", "s", " ", "f",
      "o", "u", "n", "d">>

\* line 216: 'subtitles not available'
Text_SubtitlesNotAvailable ==
    <<"s", "u", "b", "t", "i", "t", "l", "e", "s", " ", "n", "o", "t", " ",
      "a", "v", "a", "i", "l", "a", "b", "l", "e">>

\* line 308: 'No subtitles available'
Text_NoSubtitlesAvailable ==
    <<"N", "o", " ", "s", "u", "b", "t", "i", "t", "l", "e", "s", " ", "a",
      "v", "a", "i", "l", "a", "b", "l", "e">>

\* line 308: 'Transcript VTT file not found'
Text_TranscriptNotFound ==
    <<"T", "r", "a", "n", "s", "c", "r", "i", "p", "t", " ", "V", "T", "T",
      " ", "f", "i", "l", "e", " ", "n", "o", "t", " ", "f", "o", "u", "n",
      "d">>

\* line 202: 'Transcript VTT file not found after download attempt or not available in RO/EN.'
Error_TranscriptNotFound ==
    <<"T", "r", "a", "n", "s", "c", "r", "i", "p", "t", " ", "V", "T", "T",
      " ", "f", "i", "l", "e", " ", "n", "o", "t", " ", "f", "o", "u", "n",
      "d", " ", "a", "f", "t", "e", "r", " ", "d", "o", "w", "n", "l", "o",
      "a", "d", " ", "a", "t", "t", "e", "m", "p", "t", " ", "o", "r", " ",
      "n", "o", "t", " ", "a", "v", "a", "i", "l", "a", "b", "l", "e", " ",
      "i", "n", " ", "R", "O", "/", "E", "N", ".">>

\* line 217: 'No subtitles available for the requested languages (RO/EN).'
Error_NoSubtitles ==
    <<"N", "o", " ", "s", "u", "b", "t", "i", "t", "l", "e", "s", " ", "a",
      "v", "a", "i", "l", "a", "b", "l", "e", " ", "f", "o", "r", " ", "t",
      "h", "e", " ", "r", "e", "q", "u", "e", "s", "t", "e", "d", " ", "l",
      "a", "n", "g", "u", "a", "g", "e", "s", " ", "(", "R", "O", "/", "E",
      "N", ")", ".">>

\* line 230: 'yt-dlp DownloadError: '
Error_DownloadPrefix ==
    <<"y", "t", "-", "d", "l", "p", " ", "D", "o", "w", "n", "l", "o", "a",
      "d", "E", "r", "r", "o", "r", ":", " ">>

\* line 233: 'Unexpected error during YouTube processing: '
Error_UnexpectedPrefix ==
    <<"U", "n", "e", "x", "p", "e", "c", "t", "e", "d", " ", "e", "r", "r",
      "o", "r", " ", "d", "u", "r", "i", "n", "g", " ", "Y", "o", "u", "T",
      "u", "b", "e", " ", "p", "r", "o", "c", "e", "s", "s", "i", "n", "g",
      ":", " ">>

\* line 294: "Missing 'url' parameter"
Error_MissingUrl ==
    <<"M", "i", "s", "s", "i", "n", "g", " ", "'", "u", "r", "l", "'", " ",
      "p", "a", "r", "a", "m", "e", "t", "e", "r">>

\* line 300: 'Invalid URL; only YouTube URLs are supported by this endpoint.'
Error_InvalidUrl ==
    <<"I", "n", "v", "a", "l", "i", "d", " ", "U", "R", "L", ";", " ", "o",
      "n", "l", "y", " ", "Y", "o", "u", "T", "u", "b", "e", " ", "U", "R",
      "L", "s", " ", "a", "r", "e", " ", "s", "u", "p", "p", "o", "r", "t",
      "e", "d", " ", "b", "y", " ", "t", "h", "i", "s", " ", "e", "n", "d",
      "p", "o", "i", "n", "t", ".">>

\* line 167: 'Unknown Title'
Title_Unknown ==
    <<"U", "n", "k", "n", "o", "w", "n", " ", "T", "i", "t", "l", "e">>

\* line 168: 'Unknown Channel'
Channel_Unknown ==
    <<"U", "n", "k", "n", "o", "w", "n", " ", "C", "h", "a", "n", "n", "e",
      "l">>

\* a title the extractor reports: 'Talk'
Title_Some ==
    <<"T", "a", "l", "k">>

\* a channel the extractor reports: 'Ch'
Channel_Some ==
    <<"C", "h">>

\* a DownloadError message: 'ERROR: No subtitles found'
Message_NoSubtitlesFound ==
    <<"E", "R", "R", "O", "R", ":", " ", "N", "o", " ", "s", "u", "b", "t",
      "i", "t", "l", "e", "s", " ", "f", "o", "u", "n", "d">>

\* a DownloadError message: 'Subtitles not available'
Message_SubtitlesNotAvailable ==
    <<"S", "u", "b", "t", "i", "t", "l", "e", "s", " ", "n", "o", "t", " ",
      "a", "v", "a", "i", "l", "a", "b", "l", "e">>

\* a DownloadError message: 'Video unavailable'
Message_VideoUnavailable ==
    <<"V", "i", "d", "e", "o", " ", "u", "n", "a", "v", "a", "i", "l", "a",
      "b", "l", "e">>

\* the message of another exception: 'invalid start byte'
Message_Decode ==
    <<"i", "n", "v", "a", "l", "i", "d", " ", "s", "t", "a", "r", "t", " ",
      "b", "y", "t", "e">>

\* Python's None
None == <<"None">>

\* the truth value Python gives a str or None
Truthy(v) == v # None /\ v # <<>>

UpperToLower ==
    "A" :> "a" @@ "B" :> "b" @@ "C" :> "c" @@ "D" :> "d" @@ "E" :> "e" @@
    "F" :> "f" @@ "G" :> "g" @@ "H" :> "h" @@ "I" :> "i" @@ "J" :> "j" @@
    "K" :> "k" @@ "L" :> "l" @@ "M" :> "m" @@ "N" :> "n" @@ "O" :> "o" @@
    "P" :> "p" @@ "Q" :> "q" @@ "R" :> "r" @@ "S" :> "s" @@ "T" :> "t" @@
    "U" :> "u" @@ "V" :> "v" @@ "W" :> "w" @@ "X" :> "x" @@ "Y" :> "y" @@
    "Z" :> "z"

\* str.lower()
lower(s) ==
    [k \in 1..Len(s) |->
        IF s[k] \in DOMAIN UpperToLower THEN UpperToLower[s[k]] ELSE s[k]]

\* lines 149, 173, 191: the languages, in the order they are tried
RO == <<"r", "o">>
EN == <<"e", "n">>
Langs == {RO, EN}

\* lines 133-139
NewResultData ==
    [title |-> None, channel_name |-> None, transcript_text |-> None,
     language_detected |-> None, error |-> None]

\* What the extractor can do on one invocation.
\* extract_info returns: the title and uploader it reports, the entry of each
\* language in requested_subtitles, the caption files it wrote, their text,
\* and whether reading and removing the chosen file succeed.
InfoOutcomes ==
    [kind : {"info"},
     title : {"absent", "none", "empty", "given"},
     uploader : {"absent", "given"},
     requested : [Langs -> {"absent", "filepath", "no_filepath"}],
     written : SUBSET Langs,
     content : { join(<<NL>>, <<Line_Timing1, Line_Hello>>), Line_WEBVTT },
     read_ok : BOOLEAN,
     remove_ok : BOOLEAN]

\* extract_info raises DownloadError: its message, the caption files written
\* before it, and what the metadata-only extractor of line 222 does.
DownloadErrorOutcomes ==
    [kind : {"download_error"},
     message : {Message_NoSubtitlesFound, Message_SubtitlesNotAvailable,
                Message_VideoUnavailable},
     written : SUBSET Langs,
     meta : {"raises", "absent", "given"}]

\* extract_info raises another exception.
OtherErrorOutcomes ==
    [kind : {"error"}, message : {Message_Decode}, written : SUBSET Langs]

Outcomes == InfoOutcomes \cup DownloadErrorOutcomes \cup OtherErrorOutcomes

\* lines 167, 224: info_dict.get('title', 'Unknown Title')
TitleOf(title) ==
    CASE title = "absent" -> Title_Unknown
      [] title = "none" -> None
      [] title = "empty" -> <<>>
      [] OTHER -> Title_Some

\* lines 168, 225: info_dict.get('uploader', info_dict.get('channel', ...)),
\* for an info_dict with no 'channel'
ChannelOf(uploader) ==
    IF uploader = "absent" THEN Channel_Unknown ELSE Channel_Some

\* lines 171-187: the language found through requested_subtitles.  Whether the
\* entry names its file (line 176) or not (lines 180-181), the file looked
\* for is the one the extractor wrote for that language.
FoundInRequested(o) ==
    LET hit(lang) == o.requested[lang] # "absent" /\ lang \in o.written IN
    IF \A lang \in Langs : o.requested[lang] = "absent" THEN None
    ELSE IF hit(RO) THEN RO
    ELSE IF hit(EN) THEN EN
    ELSE None

\* lines 189-199: the language found by scanning the directory
FoundByScan(o) ==
    IF RO \in o.written THEN RO
    ELSE IF EN \in o.written THEN EN
    ELSE None

\* lines 171-199: the language of downloaded_vtt_path, or None
DownloadedLang(o) ==
    IF FoundInRequested(o) # None THEN FoundInRequested(o) ELSE FoundByScan(o)

\* lines 234-240: the files left once the finally block has run for `lang`
AfterFinally(written, lang, remove_ok) ==
    IF lang # None /\ lang \in written /\ remove_ok
    THEN written \ {lang}
    ELSE written

\* lines 216: the message names missing subtitles
IsNoSubtitlesMessage(message) ==
    \/ Contains(lower(message), Text_NoSubtitlesFound)
    \/ Contains(lower(message), Text_SubtitlesNotAvailable)

\* lines 131-241: what the extraction returns on outcome o, and the caption
\* files of this invocation that are left when it returns
Extraction(o) ==
    IF o.kind = "info"
    THEN LET base == [NewResultData EXCEPT
                          !.title = TitleOf(o.title),
                          !.channel_name = ChannelOf(o.uploader)]
             lang == DownloadedLang(o)
         IN IF lang = None
            THEN [result |-> [base EXCEPT !.error = Error_TranscriptNotFound],
                  files |-> AfterFinally(o.written, None, o.remove_ok)]
            ELSE IF ~o.read_ok
            THEN [result |-> [base EXCEPT !.error =
                                 Error_UnexpectedPrefix \o Message_Decode],
                  files |-> AfterFinally(o.written, lang, o.remove_ok)]
            ELSE [result |-> [base EXCEPT
                                 !.transcript_text = RunAlone(o.content),
                                 !.language_detected = lang],
                  files |-> AfterFinally(o.written, lang, o.remove_ok)]
    ELSE IF o.kind = "download_error"
    THEN IF IsNoSubtitlesMessage(o.message)
         THEN [result |-> [NewResultData EXCEPT
                              !.error = Error_NoSubtitles,
                              !.title = IF o.meta = "raises" THEN None
                                        ELSE TitleOf(o.meta),
                              !.channel_name = IF o.meta = "raises" THEN None
                                               ELSE Channel_Unknown],
               files |-> AfterFinally(o.written, None, TRUE)]
         ELSE [result |-> [NewResultData EXCEPT
                              !.error = Error_DownloadPrefix \o o.message],
               files |-> AfterFinally(o.written, None, TRUE)]
    ELSE [result |-> [NewResultData EXCEPT
                         !.error = Error_UnexpectedPrefix \o o.message],
          files |-> AfterFinally(o.written, None, TRUE)]

\* line 298: the URL check
PassesUrlCheck(video_url_param) ==
    \/ Contains(lower(video_url_param), Url_CheckA)
    \/ Contains(lower(video_url_param), Url_CheckB)

\* lines 304-318: the status for a result of the extraction
StatusFor(result) ==
    IF ~Truthy(result.error) THEN 200
    ELSE IF /\ Truthy(result.title)
            /\ \/ Contains(result.error, Text_NoSubtitlesAvailable)
               \/ Contains(result.error, Text_TranscriptNotFound)
    THEN 206
    ELSE IF ~Truthy(result.title) THEN 500
    ELSE 500

\* line 291: the values of request.args.get('url'): no parameter, an empty
\* one, and four URLs
RequestUrls ==
    {None, <<>>, Url_Other, Url_CheckA, Url_CheckALower, Url_Short}

NoResponse ==
    [url |-> None, status |-> 0, extracted |-> FALSE, body |-> NewResultData]

InitApiIdle ==
    /\ temp_files = {}
    /\ result_data = NewResultData
    /\ response = NoResponse

\* lines 131-241: the extraction, invoked on its own.  An invocation works on
\* a result_data and a file basename of its own and takes nothing from the
\* one before it, so one invocation is followed from each state of the route.
get_youtube_details_and_transcript ==
    \E o \in Outcomes :
        LET x == Extraction(o) IN
        /\ result_data = NewResultData
        /\ result_data' = x.result
        /\ temp_files' = x.files
        /\ UNCHANGED response
        /\ UNCHANGED flattener_vars

\* lines 288-320: one request to /api/get_youtube_details, the extraction it
\* invokes included
api_get_youtube_details_route ==
    \E video_url_param \in RequestUrls :
        /\ IF ~Truthy(video_url_param)
           THEN /\ response' = [url |-> video_url_param, status |-> 400,
                                extracted |-> FALSE,
                                body |-> [error |-> Error_MissingUrl]]
                /\ UNCHANGED <<result_data, temp_files>>
           ELSE IF ~PassesUrlCheck(video_url_param)
           THEN /\ response' = [url |-> video_url_param, status |-> 400,
                                extracted |-> FALSE,
                                body |-> [error |-> Error_InvalidUrl]]
                /\ UNCHANGED <<result_data, temp_files>>
           ELSE \E o \in Outcomes :
                    LET x == Extraction(o) IN
                    /\ response' = [url |-> video_url_param,
                                    status |-> StatusFor(x.result),
                                    extracted |-> TRUE,
                                    body |-> x.result]
                    /\ result_data' = x.result
                    /\ temp_files' = x.files
        /\ UNCHANGED flattener_vars

\* One invocation of a fresh process, over every document.  Repeated and
\* interleaved invocations are those of SpecConc.
Init ==
    /\ InitFlattener({"A"})
    /\ InitApiIdle

Next ==
    \/ \E document \in Documents : pc["A"] = "idle" /\ Call("A", document)
    \/ Iterate("A")
    \/ Return("A")

Spec == Init /\ [][Next]_vars

\* Two invocations interleaved at line granularity.
InitConc ==
    /\ InitFlattener(Invocations)
    /\ InitApiIdle

NextConc ==
    \/ \E i \in Invocations, document \in ConcDocuments : Call(i, document)
    \/ \E i \in Invocations : Iterate(i)
    \/ \E i \in Invocations : Return(i)

SpecConc == InitConc /\ [][NextConc]_vars

\* The route and the extraction.
InitApi ==
    /\ InitFlattener({"A"})
    /\ InitApiIdle

NextApi ==
    \/ api_get_youtube_details_route
    \/ get_youtube_details_and_transcript

SpecApi == InitApi /\ [][NextApi]_vars

-----------------------------------------------------------------------------
\* What the claims speak of, stated on the lines themselves.

\* the line is empty after trimming
BlankLine(line) == strip(line) = <<>>

\* the line contains the timestamp delimiter
ArrowLine(line) == Contains(strip(line), Arrow)

\* the line is made of decimal digits only
DigitsLine(line) == isdigit(strip(line))

\* line k of ls is inside a cue: an earlier line holds the arrow and no blank
\* line lies between that line and line k
ActiveAt(ls, k) ==
    \E j \in 1..(k - 1) :
        /\ ArrowLine(ls[j])
        /\ \A n \in (j + 1)..(k - 1) : ~BlankLine(ls[n])

\* the iterations of invocation i that appended a line
EmittedAt(i) == { k \in 1..Len(history[i]) : history[i][k].emitted }

\* the history of invocation i is that of one forward pass: iteration k read
\* line k
ForwardPass(i) ==
    /\ Len(history[i]) = pos[i] - 1
    /\ Len(history[i]) <= Len(lines[i])
    /\ \A k \in 1..Len(history[i]) : history[i][k].line = k

\* C1: a line contributes to the output only if it is read while the flag is
\* true, and the flag is true exactly when an earlier line held the arrow and
\* no blank line came since: lines before the first timestamp line or after a
\* blank line are ignored, and a document with no timestamp line returns "".
C1_OnlyInsideCue ==
    /\ ForwardPass("A")
    /\ Len(text_lines["A"]) = Cardinality(EmittedAt("A"))
    /\ \A k \in 1..Len(history["A"]) :
          /\ history["A"][k].flag = ActiveAt(lines["A"], k)
          /\ history["A"][k].emitted =>
                history["A"][k].flag /\ ActiveAt(lines["A"], k)
    /\ in_dialogue_block["A"] = ActiveAt(lines["A"], pos["A"])
    /\ (pc["A"] = "done" /\ \A k \in 1..Len(lines["A"]) : ~ArrowLine(lines["A"][k]))
          => returned["A"] = <<>>

\* C1's case: a finished pass that emitted a line, ignored a text line read
\* before the first timestamp line and ignored one read after a blank line
\* that closed a cue.
C1_Witness ==
    /\ pc["A"] = "done"
    /\ EmittedAt("A") # {}
    /\ \E k \in 1..Len(lines["A"]) :
          /\ ~BlankLine(lines["A"][k]) /\ ~ArrowLine(lines["A"][k])
          /\ ~DigitsLine(lines["A"][k])
          /\ \A j \in 1..k : ~ArrowLine(lines["A"][j])
    /\ \E j, b, k \in 1..Len(lines["A"]) :
          /\ j < b /\ b < k
          /\ ArrowLine(lines["A"][j]) /\ BlankLine(lines["A"][b])
          /\ ~BlankLine(lines["A"][k]) /\ ~ArrowLine(lines["A"][k])
          /\ ~DigitsLine(lines["A"][k])
          /\ ~history["A"][k].emitted

RECURSIVE CleanedSelection(_, _, _)
\* the cleaned text, in source order, of the lines k..Len(ls) of ls that are
\* non-empty after trimming, hold no arrow, were read with the flag true
\* (flags[k]) and are non-empty after cleanup
CleanedSelection(ls, flags, k) ==
    IF k > Len(ls) THEN <<>>
    ELSE LET cleaned == CleanLine(strip(ls[k]))
             taken == /\ ~BlankLine(ls[k])
                      /\ ~ArrowLine(ls[k])
                      /\ flags[k]
                      /\ cleaned # <<>>
         IN (IF taken THEN <<cleaned>> ELSE <<>>)
                \o CleanedSelection(ls, flags, k + 1)

\* C2: the returned text is the single-newline join, in source order, of the
\* cleaned text of the lines that are non-empty after trimming, hold no arrow,
\* were read with the flag true and are non-empty after cleanup; every line
\* contributes at most one output line and a line holding the arrow none.
C2_JoinOfCleanedLines ==
    pc["A"] = "done" =>
        /\ Len(history["A"]) = Len(lines["A"])
        /\ returned["A"] =
              join(<<NL>>,
                   CleanedSelection(lines["A"],
                                    [k \in 1..Len(lines["A"]) |->
                                        history["A"][k].flag], 1))
        /\ Len(text_lines["A"]) = Cardinality(EmittedAt("A"))
        /\ \A k \in EmittedAt("A") : ~ArrowLine(lines["A"][k])

\* C2's case: the two-line cue under one timestamp line, returned in order.
C2_Witness ==
    /\ pc["A"] = "done"
    /\ vtt_content["A"] =
          join(<<NL>>, <<Line_Timing5, Line_LineOne, Line_LineTwo, <<>>, <<>>>>)
    /\ returned["A"] = Line_LineOne \o <<NL>> \o Line_LineTwo

\* C3: a digits-only line is emitted exactly when the flag is true as it is
\* read: dropped outside a cue, emitted as dialogue inside one.
C3_DigitsOnlyByFlag ==
    \A k \in 1..Len(history["A"]) :
        DigitsLine(lines["A"][k]) =>
            /\ history["A"][k].emitted = history["A"][k].flag
            /\ history["A"][k].emitted = ActiveAt(lines["A"], k)

\* C3's case: one pass that emitted a digits-only line inside a cue and
\* dropped a digits-only line after the blank line that closed it.
C3_Witness ==
    /\ pc["A"] = "done"
    /\ \E j, k \in 1..Len(lines["A"]) :
          /\ j < k
          /\ DigitsLine(lines["A"][j]) /\ history["A"][j].emitted
          /\ DigitsLine(lines["A"][k]) /\ ~history["A"][k].emitted
          /\ ActiveAt(lines["A"], j) /\ ~ActiveAt(lines["A"], k)

\* the text iteration k of invocation i appended
EmittedText(i, k) ==
    text_lines[i][Cardinality({ j \in EmittedAt(i) : j <= k })]

\* the decoding C4 describes: the escaped less-than, the escaped greater-than,
\* then the escaped ampersand
ClaimedDecode(s) ==
    replace(replace(replace(s, <<"&", "l", "t", ";">>, <<"<">>),
                    <<"&", "g", "t", ";">>, <<">">>),
            <<"&", "a", "m", "p", ";">>, <<"&">>)

\* C4: a dialogue line read inside a cue is emitted with its tags removed and
\* then &lt;, &gt; and &amp; decoded to <, > and &, the ampersand entity last:
\* "5 &lt; 10 &amp; true" is emitted as "5 < 10 & true" and "&amp;lt;" as
\* "&lt;".
C4_EntitiesDecoded ==
    /\ \A k \in EmittedAt("A") :
          EmittedText("A", k) =
              ClaimedDecode(re_sub_tags(strip(lines["A"][k])))
    /\ (pc["A"] = "done"
          /\ vtt_content["A"] = join(<<NL>>, <<Line_Timing1, Line_Entities>>))
          => returned["A"] = Line_EntitiesDecoded
    /\ (pc["A"] = "done"
          /\ vtt_content["A"] = join(<<NL>>, <<Line_Timing1, Line_DoubleEscaped>>))
          => returned["A"] = Line_EscapedLt

\* s holds a '<' that some later '>' follows
OpenThenClose(s) ==
    \E p, q \in 1..Len(s) : p < q /\ s[p] = "<" /\ s[q] = ">"

\* s holds a '<' that a '>' follows later but not at once
ProperTagLeft(s) ==
    \E p, q \in 1..Len(s) :
        /\ p + 1 < q
        /\ s[p] = "<" /\ s[p + 1] # ">" /\ s[q] = ">"

\* C5 as stated: every '<' ... '>' is removed from a dialogue line, "<>"
\* included, so no emitted line holds a '<' with a '>' anywhere after it.
C5_NoTagLeft ==
    \A n \in 1..Len(text_lines["A"]) : ~OpenThenClose(text_lines["A"][n])

\* C5, amended: every '<' that is followed by at least one character other
\* than '>' and then by a '>' is removed up to the next '>'; "<>" stays.  No
\* emitted line holds a '<' with a '>' after it unless the '>' comes at once,
\* and "<v Alice>Hi there</v>" is emitted as "Hi there".
C5_NoProperTagLeft ==
    /\ \A n \in 1..Len(text_lines["A"]) : ~ProperTagLeft(text_lines["A"][n])
    /\ \A k \in EmittedAt("A") :
          Len(EmittedText("A", k)) <= Len(strip(lines["A"][k]))
    /\ (pc["A"] = "done"
          /\ vtt_content["A"] = join(<<NL>>, <<Line_Timing1, Line_Voice>>))
          => returned["A"] = Line_HiThere
    /\ (pc["A"] = "done"
          /\ vtt_content["A"] = join(<<NL>>, <<Line_Timing1, Line_EmptyTag>>))
          => returned["A"] = Line_EmptyTag

\* C5's case: the voice-tagged line was read inside a cue and emitted without
\* its two tags.
C5_Witness ==
    /\ pc["A"] = "done"
    /\ vtt_content["A"] = join(<<NL>>, <<Line_Timing1, Line_Voice>>)
    /\ EmittedAt("A") = {2}
    /\ text_lines["A"] = <<Line_HiThere>>

\* C6 as stated: every emitted line is non-empty and not made of white space
\* only.
C6_NoBlankOutputLine ==
    \A n \in 1..Len(text_lines["A"]) : strip(text_lines["A"][n]) # <<>>

\* C6, amended: every emitted line is non-empty, and so is every line of the
\* returned text; a dialogue line that is empty after markup removal
\* ("<i></i>") contributes nothing, while one left with white space only
\* ("<i> </i>") is emitted as that white space.
C6_NoEmptyOutputLine ==
    /\ \A n \in 1..Len(text_lines["A"]) : text_lines["A"][n] # <<>>
    /\ pc["A"] = "done" =>
          /\ splitlines(returned["A"]) = text_lines["A"]
          /\ \A k \in 1..Len(lines["A"]) :
                re_sub_tags(strip(lines["A"][k])) = <<>>
                    => ~history["A"][k].emitted
    /\ (pc["A"] = "done"
          /\ vtt_content["A"] = join(<<NL>>, <<Line_Timing1, Line_TagsAroundSpace>>))
          => returned["A"] = <<" ">>

\* C6's case: a line made of tags only was read inside a cue and dropped.
C6_Witness ==
    /\ pc["A"] = "done"
    /\ \E k \in 1..Len(lines["A"]) :
          /\ history["A"][k].flag
          /\ ~BlankLine(lines["A"][k])
          /\ ~ArrowLine(lines["A"][k])
          /\ re_sub_tags(strip(lines["A"][k])) = <<>>
          /\ ~history["A"][k].emitted

RECURSIVE TrimmedNonEmpty(_)
\* the trimmed lines of ls that are not empty, in order
TrimmedNonEmpty(ls) ==
    IF ls = <<>> THEN <<>>
    ELSE (IF BlankLine(Head(ls)) THEN <<>> ELSE <<strip(Head(ls))>>)
            \o TrimmedNonEmpty(Tail(ls))

\* the document of invocation i has no timestamp line and no digits-only line
PlainText(i) ==
    \A k \in 1..Len(lines[i]) :
        ~ArrowLine(lines[i][k]) /\ ~DigitsLine(lines[i][k])

\* C7 as stated: a document with no timestamp line and no digits-only line is
\* returned as its trimmed non-empty lines joined by newlines.
C7_PlainTextUnchanged ==
    (pc["A"] = "done" /\ PlainText("A"))
        => returned["A"] = join(<<NL>>, TrimmedNonEmpty(lines["A"]))

\* C7, amended: a document with no timestamp line and no digits-only line is
\* never in dialogue, emits nothing and returns the empty string.
C7_PlainTextReturnsEmpty ==
    /\ PlainText("A") =>
          /\ ~in_dialogue_block["A"]
          /\ text_lines["A"] = <<>>
    /\ (pc["A"] = "done" /\ PlainText("A")) => returned["A"] = <<>>

\* C7's case: a finished pass over plain text that has non-empty lines.
C7_Witness ==
    /\ pc["A"] = "done"
    /\ PlainText("A")
    /\ Len(TrimmedNonEmpty(lines["A"])) >= 2
    /\ returned["A"] = <<>>

\* the lines invocation i has still to read
LinesLeft(i) == Len(lines[i]) + 1 - pos[i]

\* C8: for every document the function makes one forward pass that reads each
\* line exactly once: while it runs, either a line is left to read or the loop
\* is exhausted and the return is due; it has made as many iterations as it
\* has read lines and never more than the document has; and it ends by
\* returning a string.  It has no state other than running and returned.
C8_TotalSinglePass ==
    /\ ForwardPass("A")
    /\ pc["A"] \in {"idle", "loop", "done"}
    /\ pc["A"] = "loop" =>
          /\ LinesLeft("A") >= 0
          /\ HasNextLine("A") \/ Exhausted("A")
          /\ Exhausted("A") <=> LinesLeft("A") = 0
    /\ pc["A"] = "done" =>
          /\ [k \in 1..Len(history["A"]) |-> history["A"][k].line]
                = [k \in 1..Len(lines["A"]) |-> k]
          /\ returned["A"] # NoValue
          /\ returned["A"] \in Seq(STRING)

\* C8's case: a pass over a document that is no caption document at all (it
\* has lines but no timestamp line) has read all its lines and returned.
C8_Witness ==
    /\ pc["A"] = "done"
    /\ Len(lines["A"]) >= 3
    /\ Len(history["A"]) = Len(lines["A"])
    /\ \A k \in 1..Len(lines["A"]) : ~ArrowLine(lines["A"][k])
    /\ returned["A"] = <<>>

\* C9: an invocation starts with the flag false and the accumulator empty,
\* whatever the invocation before it left, and what it returns is what it
\* returns when run alone, however its iterations interleave with those of
\* another invocation.
C9_NoSharedState ==
    \A i \in Invocations :
        /\ (pc[i] = "loop" /\ pos[i] = 1) =>
              ~in_dialogue_block[i] /\ text_lines[i] = <<>>
        /\ pc[i] = "loop" =>
              /\ lines[i] = splitlines(vtt_content[i])
              /\ text_lines[i] =
                    RunLoop(SubSeq(lines[i], 1, pos[i] - 1), FALSE, <<>>)
        /\ pc[i] = "done" => returned[i] = RunAlone(vtt_content[i])

\* C9's case: B runs again after an invocation of B that ended in dialogue
\* mode, A is in the middle of its own loop and in dialogue mode, and B has
\* returned "" for a document whose only line is text.
C9_Witness ==
    /\ pc["A"] = "loop"
    /\ pos["A"] > 1 /\ pos["A"] <= Len(lines["A"])
    /\ in_dialogue_block["A"]
    /\ flag_found["B"]
    /\ pc["B"] = "done"
    /\ vtt_content["B"] = <<"a">>
    /\ returned["B"] = <<>>

\* the URL check as lines 296-297 and the message of line 300 describe it:
\* the request names a YouTube host
NamesYouTube(url) ==
    \/ Contains(lower(url), Host_YouTube)
    \/ Contains(lower(url), Host_YouTuBe)

\* the status C10 gives a result of the extraction
ClaimedStatus(result) ==
    IF result.error = None THEN 200
    ELSE IF /\ result.title # None
            /\ result.error \in {Error_NoSubtitles, Error_TranscriptNotFound}
    THEN 206
    ELSE 500

ExtractionReturned == result_data # NewResultData

\* C11: whenever get_youtube_details_and_transcript returns, by any path
\* (transcript parsed, transcript not found, DownloadError, any other caught
\* exception), none of the caption files the downloader wrote for this
\* invocation (<basename>.ro.vtt, <basename>.en.vtt) is left in the temporary
\* transcripts directory.
C11_NoTempFilesLeft ==
    ExtractionReturned => temp_files = {}

====
